---- MODULE Spec2Model ----
(***************************************************************************)
(* Receiver side of a BIP 77 (payjoin v2) session:                         *)
(* payjoin/src/receive/v2/mod.rs.                                          *)
(*                                                                         *)
(* Spec follows one session: the NewReceiver, the persisted and the loaded *)
(* Receiver<WithContext>, and the proposal values (UncheckedProposal ..    *)
(* PayjoinProposal) that process_res and the guards produce.  The proposal *)
(* values are the bag `props`; a guard that takes `self` by value takes    *)
(* the value out of the bag.  Every action records the operation it        *)
(* modelled and what it returned in `out`.                                 *)
(***************************************************************************)
EXTENDS Integers, Sequences, FiniteSets, Bags, TLC

VARIABLES
    now,        \* SystemTime::now(), in seconds
    new_rcv,    \* the NewReceiver built by NewReceiver::new
    store,      \* what the persister holds: <<>> or <<key and serialized value>>
    receiver,   \* the loaded Receiver<WithContext>: <<>> or <<receiver>>
    ohttp_ctx,  \* an ohttp::ClientResponse of extract_req awaits its response
    props,      \* the live proposal values, a bag of states
    out,        \* the last operation: its name, its result, the request built
    arg,        \* what the caller passed to the last operation
    seen,       \* the outpoints the caller's is_known oracle has recorded
    calls       \* the calls of check_no_inputs_seen_before in progress

vars == <<now, new_rcv, store, receiver, ohttp_ctx, props, out, arg, seen, calls>>

\* the caller's side of the session
caller == <<arg, seen, calls>>

----------------------------------------------------------------------------
(* Bounds *)

MaxTime == 2
MaxProps == 1

(* Program constants *)

TWENTY_FOUR_HOURS_DEFAULT_EXPIRY == 86400

SUPPORTED_VERSIONS == {"One", "Two"}

----------------------------------------------------------------------------
(* Inputs *)

\* expire_after: Option<Duration>, <<>> for None and <<d>> for Some(d)
ExpireAfterInputs == {<<1>>}

\* Directory URLs: empty path, path without and with a trailing slash.
\* A path is the sequence of its segments ("/a/" has the segments a and "").
DirectoryInputs ==
    { [host |-> "dir", path |-> <<"">>],
      [host |-> "dir", path |-> <<"a">>],
      [host |-> "dir", path |-> <<"a", "">>] }

\* the directory of the session followed through the whole flow
SessionDirectories == { [host |-> "dir", path |-> <<"a", "">>] }

NoUrl == [host |-> "none", path |-> <<>>]

\* ohttp_relay: impl IntoUrl; "bad" stands for an input into_url rejects
RelayInputs == {"relay", "bad"}

SenderKeys == {"e1", "e2"}
NoKey == "None"

\* the receiver's HpkeKeyPair::gen_keypair()
ReceiverKeyPair == [sk |-> "s_sec", pk |-> "s_pub"]

----------------------------------------------------------------------------
(* Helpers of the session context *)

\* sha256 of the compressed key, truncated to a ShortId
ShortId(pubkey) ==
    CASE pubkey = "s_pub" -> "id_s"
      [] pubkey = "e1"    -> "id_e1"
      [] pubkey = "e2"    -> "id_e2"
      [] OTHER            -> "id_other"

subdir_path_from_pubkey(pubkey) == ShortId(pubkey)

id(context) == ShortId(context.s.pk)

\* url::PathSegmentsMut::push: a segment is appended after a "/", which is
\* not added when the path is the bare root
subdir(directory, sid) ==
    [directory EXCEPT !.path =
        IF directory.path = <<"">> THEN <<sid>> ELSE Append(directory.path, sid)]

\* Url::join of a relative reference of one segment: the last segment of
\* the base path is replaced
UrlJoin(base, seg) ==
    [base EXCEPT !.path = SubSeq(base.path, 1, Len(base.path) - 1) \o <<seg>>]

\* Url::join("/"): scheme and authority only
UrlBase(url) == [url EXCEPT !.path = <<"">>]

into_url(input) ==
    IF input = "bad" THEN [ok |-> FALSE, url |-> NoUrl]
    ELSE [ok |-> TRUE, url |-> [host |-> input, path |-> <<"">>]]

\* variant: the whole directory URL is appended to the relay URL
full_relay_url_whole_directory(context, ohttp_relay) ==
    LET relay_base == into_url(ohttp_relay)
    IN  IF ~relay_base.ok THEN [ok |-> FALSE, url |-> NoUrl]
        ELSE [ok |-> TRUE,
              url |-> [host |-> relay_base.url.host,
                       path |-> <<context.directory.host>> \o context.directory.path]]

full_relay_url(context, ohttp_relay) ==
    LET relay_base == into_url(ohttp_relay)
        directory_base == UrlBase(context.directory)
    IN  IF ~relay_base.ok THEN [ok |-> FALSE, url |-> NoUrl]
        ELSE [ok |-> TRUE,
              url |-> [host |-> relay_base.url.host,
                       path |-> <<directory_base.host, "">>]]

\* variant: the instant of expiry counts as expired
is_expired_at_expiry(context, t) == t >= context.expiry

is_expired(context, t) == t > context.expiry

----------------------------------------------------------------------------
(* Requests *)

NoBody == [seal |-> NoKey, fmt |-> "none", content |-> "none"]

NoRequest == [method |-> "none", target |-> NoUrl, body |-> NoBody, url |-> NoUrl]

\* crate::ohttp::ohttp_encapsulate: takes the keys by &mut and leaves them
\* "used"; the envelope holds method, target resource and body
ohttp_encapsulate(ohttp_keys, method, target_resource, body) ==
    [ohttp_keys |-> "used",
     envelope |-> [method |-> method, target |-> target_resource, body |-> body]]

\* Request::new_v2(url, body)
new_v2(url, envelope) ==
    [method |-> envelope.method, target |-> envelope.target,
     body |-> envelope.body, url |-> url]

NoParams == [v |-> "None", output_substitution |-> "None"]

NoContext ==
    [address |-> "none", directory |-> NoUrl, subdirectory |-> "None",
     ohttp_keys |-> "none", expiry |-> 0, s |-> [sk |-> "none", pk |-> "none"],
     e |-> NoKey]

\* no proposal state
NoState ==
    [stage |-> "none", v1 |-> [psbt |-> "none", params |-> NoParams],
     context |-> NoContext]

\* what an action leaves in `out`; `self` is the proposal state a request
\* builder was called on (NoState for the other operations)
\* no InputPair returned
NoInputPair == 0

\* no PjUri returned
NoUri ==
    [address |-> "none",
     endpoint |-> [url |-> NoUrl, receiver_pubkey |-> "none", ohttp |-> "none", exp |-> 0],
     output_substitution |-> "None"]

\* `chosen` is the InputPair (its value) that try_preserving_privacy
\* returned, `uri` the PjUri that pj_uri returned
OutOf(op, self, res, req) ==
    [op |-> op, self |-> self, res |-> res, req |-> req, chosen |-> NoInputPair,
     uri |-> NoUri]

Out(op, res, req) == OutOf(op, NoState, res, req)

\* an oracle the caller passes to a check: the things it answers Ok(true)
\* for, and the things it answers Err for (Ok(false) for the others)
NoOracle == [yes |-> {}, fails |-> {}]

NoError == [type |-> "none", variant |-> "none", text |-> "none"]

\* what the caller passed to an operation; the fields that the operation
\* does not take are as in NoArg
\* no decapsulated body, and no directory response
NoPayload ==
    [hpke |-> FALSE, to |-> NoKey, e |-> NoKey, inner_utf8 |-> TRUE, text |-> <<>>]

NoResponse == [status |-> "none", body |-> NoPayload]

\* `response` is the directory response passed to process_res, `payload`
\* the body that process_res last returned a proposal for
NoArg ==
    [expire_after |-> <<>>, can_broadcast |-> "none", is_owned |-> NoOracle,
     candidate_inputs |-> {}, error |-> NoError, ohttp_relay |-> "none",
     response |-> NoResponse, payload |-> NoPayload]

----------------------------------------------------------------------------
(* NewReceiver *)

\* variant: the session always gets the default lifetime
NewReceiver_new_default_expiry(address, directory, ohttp_keys, expire_after, t) ==
    [context |->
        [address |-> address,
         directory |-> directory,
         subdirectory |-> "None",
         ohttp_keys |-> ohttp_keys,
         expiry |-> t + TWENTY_FOUR_HOURS_DEFAULT_EXPIRY,
         s |-> ReceiverKeyPair,
         e |-> NoKey]]

NewReceiver_new(address, directory, ohttp_keys, expire_after, t) ==
    [context |->
        [address |-> address,
         directory |-> directory,
         subdirectory |-> "None",
         ohttp_keys |-> ohttp_keys,
         expiry |-> t + (IF expire_after = <<>>
                         THEN TWENTY_FOUR_HOURS_DEFAULT_EXPIRY
                         ELSE expire_after[1]),
         s |-> ReceiverKeyPair,
         e |-> NoKey]]

Init ==
    /\ now = 0
    /\ \E directory \in SessionDirectories, expire_after \in ExpireAfterInputs :
          /\ new_rcv = NewReceiver_new("addr", directory, "fresh", expire_after, 0)
          /\ arg = [NoArg EXCEPT !.expire_after = expire_after]
    /\ store = <<>>
    /\ receiver = <<>>
    /\ ohttp_ctx = FALSE
    /\ props = EmptyBag
    /\ out = Out("new", "Ok", NoRequest)
    /\ seen = {}
    /\ calls = {}

\* serde of the fields of SessionContext.  A Url is written as its text,
\* here the host followed by the path segments; an Option as null (<<>>) or
\* the value; a SystemTime as the seconds and nanoseconds since the epoch.
Url_to_string(url) == <<url.host>> \o url.path

Url_parse(text) == [host |-> Head(text), path |-> Tail(text)]

Option_to_json(value, none) == IF value = none THEN <<>> ELSE <<value>>

Option_from_json(json, none) == IF json = <<>> THEN none ELSE json[1]

SystemTime_to_json(t) == [secs_since_epoch |-> t, nanos_since_epoch |-> 0]

SystemTime_from_json(json) == json.secs_since_epoch

\* deserialize_address_assume_checked: Address::from_str, assume_checked
deserialize_address_assume_checked(text) == text

\* serde_json::to_string(&Receiver<WithContext>)
to_string(self) ==
    [state |-> [context |->
        [address |-> self.context.address,
         directory |-> Url_to_string(self.context.directory),
         subdirectory |-> Option_to_json(self.context.subdirectory, "None"),
         ohttp_keys |-> self.context.ohttp_keys,
         expiry |-> SystemTime_to_json(self.context.expiry),
         s |-> <<self.context.s.sk, self.context.s.pk>>,
         e |-> Option_to_json(self.context.e, NoKey)]]]

\* variant: the sender key is not read back
from_str_without_e(json) ==
    LET c == json.state.context IN
    [context |->
        [address |-> deserialize_address_assume_checked(c.address),
         directory |-> Url_parse(c.directory),
         subdirectory |-> Option_from_json(c.subdirectory, "None"),
         ohttp_keys |-> c.ohttp_keys,
         expiry |-> SystemTime_from_json(c.expiry),
         s |-> [sk |-> c.s[1], pk |-> c.s[2]],
         e |-> NoKey]]

\* serde_json::from_str::<Receiver<WithContext>>
from_str(json) ==
    LET c == json.state.context IN
    [context |->
        [address |-> deserialize_address_assume_checked(c.address),
         directory |-> Url_parse(c.directory),
         subdirectory |-> Option_from_json(c.subdirectory, "None"),
         ohttp_keys |-> c.ohttp_keys,
         expiry |-> SystemTime_from_json(c.expiry),
         s |-> [sk |-> c.s[1], pk |-> c.s[2]],
         e |-> Option_from_json(c.e, NoKey)]]

\* Value::key of Receiver<WithContext>: the bytes of the session id
key(self) == id(self.context)

\* NewReceiver::persist: saves Receiver { state: WithContext { context } }.
\* Saving the same receiver again changes nothing and is left out.
persist ==
    /\ store = <<>>
    /\ LET saved == [context |-> new_rcv.context]
       IN  store' = << [key |-> key(saved), value |-> to_string(saved)] >>
    /\ out' = Out("persist", "Ok", NoRequest)
    /\ UNCHANGED <<now, new_rcv, receiver, ohttp_ctx, props>>

\* variant: a receiver is had without the persister
load_unsaved ==
    /\ receiver = <<>>
    /\ receiver' = << [context |-> new_rcv.context] >>
    /\ out' = Out("load", "Ok", NoRequest)
    /\ UNCHANGED <<now, new_rcv, store, ohttp_ctx, props>>

\* Receiver<WithContext>::load(token, persister), with the token persist
\* returned and a persister that keeps the serialized receiver under its
\* key.  The model follows one loaded receiver.
load ==
    /\ store # <<>>
    /\ receiver = <<>>
    /\ receiver' = << from_str(store[1].value) >>
    /\ out' = Out("load", "Ok", NoRequest)
    /\ UNCHANGED <<now, new_rcv, store, ohttp_ctx, props>>

\* the clock advances
Tick ==
    /\ now < MaxTime
    /\ now' = now + 1
    /\ out' = Out("tick", "Ok", NoRequest)
    /\ UNCHANGED <<new_rcv, store, receiver, ohttp_ctx, props>>

----------------------------------------------------------------------------
(* Receiver<WithContext> *)

\* fallback_req_body: GET of the session subdirectory, no body
fallback_req_body(context) ==
    LET fallback_target == subdir(context.directory, id(context))
    IN  ohttp_encapsulate(context.ohttp_keys, "GET", fallback_target, NoBody)

WithContext_extract_req(ohttp_relay) ==
    /\ receiver # <<>>
    /\ LET self == receiver[1] IN
       IF is_expired(self.context, now)
       THEN /\ out' = Out("extract_req", "Expired", NoRequest)
            /\ UNCHANGED <<receiver, ohttp_ctx>>
       ELSE LET enc == fallback_req_body(self.context)
                   url == full_relay_url(self.context, ohttp_relay)
            IN  /\ receiver' =
                     << [self EXCEPT !.context.ohttp_keys = enc.ohttp_keys] >>
                /\ IF url.ok
                   THEN /\ out' = Out("extract_req", "Ok",
                                      new_v2(url.url, enc.envelope))
                        /\ ohttp_ctx' = TRUE
                   ELSE /\ out' = Out("extract_req", "ParseUrl", NoRequest)
                        /\ UNCHANGED ohttp_ctx
    /\ UNCHANGED <<now, new_rcv, store, props>>

\* UrlExt::set_receiver_pubkey, set_ohttp, set_exp: the value is kept in
\* the fragment of the endpoint
set_fragment(endpoint, name, value) == [endpoint EXCEPT ![name] = value]

\* variant: the endpoint is the directory itself
pj_uri_of_at_directory(self) ==
    LET pj == self.context.directory
        pj1 == set_fragment([url |-> pj, receiver_pubkey |-> "none",
                             ohttp |-> "none", exp |-> 0],
                            "receiver_pubkey", self.context.s.pk)
        pj2 == set_fragment(pj1, "ohttp", self.context.ohttp_keys)
        pj3 == set_fragment(pj2, "exp", self.context.expiry)
    IN  [address |-> self.context.address,
         endpoint |-> pj3,
         output_substitution |-> "Enabled"]

\* the PjUri that pj_uri builds
pj_uri_of(self) ==
    LET pj == subdir(self.context.directory, id(self.context))
        pj1 == set_fragment([url |-> pj, receiver_pubkey |-> "none",
                             ohttp |-> "none", exp |-> 0],
                            "receiver_pubkey", self.context.s.pk)
        pj2 == set_fragment(pj1, "ohttp", self.context.ohttp_keys)
        pj3 == set_fragment(pj2, "exp", self.context.expiry)
    IN  [address |-> self.context.address,
         endpoint |-> pj3,
         output_substitution |-> "Enabled"]

\* Receiver<WithContext>::pj_uri(&self)
pj_uri ==
    /\ receiver # <<>>
    /\ out' = [Out("pj_uri", "Ok", NoRequest) EXCEPT !.uri = pj_uri_of(receiver[1])]
    /\ UNCHANGED <<now, new_rcv, store, receiver, ohttp_ctx, props>>

\* A payload text is a sequence of tokens: "PSBT" a base64 PSBT, "junk" text
\* that is no PSBT, "\n" the newline, "NUL" a padding NUL, and the query
\* parameters "v=1", "v=2", "v=3" and "dos=1" (disableoutputsubstitution).
PayloadTexts ==
    { <<"PSBT", "\n", "v=1">>,
      <<"PSBT", "\n", "v=1", "dos=1", "NUL">>,
      <<"PSBT", "\n", "v=2">>,
      <<"PSBT", "\n", "v=3">>,
      <<"PSBT">> }

\* The decapsulated bodies a directory can hold for the session: a plaintext
\* (valid UTF-8) text, or an HPKE ciphertext (not valid UTF-8) sealed by the
\* sender key e to the key `to`, whose plaintext is `text` when `inner_utf8`.
PlainBody(text) ==
    [hpke |-> FALSE, to |-> NoKey, e |-> NoKey, inner_utf8 |-> TRUE, text |-> text]

SealedBody(to, e, inner_utf8, text) ==
    [hpke |-> TRUE, to |-> to, e |-> e, inner_utf8 |-> inner_utf8, text |-> text]

BodyInputs ==
    { PlainBody(t) : t \in PayloadTexts }
    \cup { SealedBody("s_pub", e, TRUE, t) : e \in SenderKeys, t \in PayloadTexts }
    \cup { SealedBody("s_pub", e, FALSE, <<>>) : e \in SenderKeys }
    \cup { SealedBody("other", e, TRUE, <<"PSBT", "\n", "v=2">>) : e \in SenderKeys }

NoBodyInput == PlainBody(<<>>)

\* what the directory answers to the poll
ResponseInputs ==
    { [status |-> "error", body |-> NoBodyInput],
      [status |-> "accepted", body |-> NoBodyInput] }
    \cup { [status |-> "ok", body |-> b] : b \in BodyInputs }

\* crate::ohttp::process_get_res
process_get_res(res) ==
    CASE res.status = "error"    -> [ok |-> FALSE, some |-> FALSE, body |-> NoBodyInput]
      [] res.status = "accepted" -> [ok |-> TRUE, some |-> FALSE, body |-> NoBodyInput]
      [] OTHER                   -> [ok |-> TRUE, some |-> TRUE, body |-> res.body]

\* std::str::from_utf8 of the decapsulated body
from_utf8_ok(body) == ~body.hpke

\* crate::hpke::decrypt_message_a(response, s.secret_key())
decrypt_message_a(body, sk) ==
    IF sk = "s_sec" /\ body.to = "s_pub"
    THEN [ok |-> TRUE, e |-> body.e]
    ELSE [ok |-> FALSE, e |-> NoKey]

\* str::split_once('\n').unwrap_or_default()
RECURSIVE IndexOf(_, _, _)
IndexOf(text, tok, i) ==
    IF i > Len(text) THEN 0
    ELSE IF text[i] = tok THEN i
    ELSE IndexOf(text, tok, i + 1)

split_once_or_default(payload) ==
    LET i == IndexOf(payload, "\n", 1)
    IN  IF i = 0 THEN <<<<>>, <<>>>>
        ELSE <<SubSeq(payload, 1, i - 1), SubSeq(payload, i + 1, Len(payload))>>

\* str::trim_matches(NUL)
RECURSIVE trim_matches_nul(_)
trim_matches_nul(text) ==
    IF text = <<>> THEN text
    ELSE IF Head(text) = "NUL" THEN trim_matches_nul(Tail(text))
    ELSE IF text[Len(text)] = "NUL"
         THEN trim_matches_nul(SubSeq(text, 1, Len(text) - 1))
    ELSE text

\* crate::receive::parse_payload(base64, query, supported_versions)
RECURSIVE parse_query(_, _)
parse_query(query, params) ==
    IF query = <<>> THEN params
    ELSE LET p == Head(query) IN
         parse_query(Tail(query),
            CASE p = "v=1"   -> [params EXCEPT !.v = "One"]
              [] p = "v=2"   -> [params EXCEPT !.v = "Two"]
              [] p = "v=3"   -> [params EXCEPT !.v = "Three"]
              [] p = "dos=1" -> [params EXCEPT !.output_substitution = "Disabled"]
              [] OTHER       -> params)

parse_payload(base64, query, supported_versions) ==
    LET params == parse_query(query, [v |-> "One", output_substitution |-> "Enabled"])
    IN  IF base64 # <<"PSBT">>
        THEN [ok |-> FALSE, err |-> "Payload", psbt |-> "none", params |-> NoParams]
        ELSE IF params.v \notin supported_versions
        THEN [ok |-> FALSE, err |-> "Payload", psbt |-> "none", params |-> NoParams]
        ELSE [ok |-> TRUE, err |-> "none", psbt |-> "Original", params |-> params]

\* variant: the parameters are kept as parsed
unchecked_from_payload_as_parsed(self, payload) ==
    LET parts == split_once_or_default(payload)
        parsed == parse_payload(parts[1], trim_matches_nul(parts[2]), SUPPORTED_VERSIONS)
    IN  IF ~parsed.ok
        THEN [self |-> self, res |-> parsed.err, state |-> NoState]
        ELSE [self |-> self, res |-> "Ok",
              state |-> [stage |-> "UncheckedProposal",
                         v1 |-> [psbt |-> parsed.psbt, params |-> parsed.params],
                         context |-> self.context]]

\* unchecked_from_payload: Ok(UncheckedProposal { v1, context: self.context.clone() })
unchecked_from_payload(self, payload) ==
    LET parts == split_once_or_default(payload)
        base64 == parts[1]
        query == trim_matches_nul(parts[2])
        parsed == parse_payload(base64, query, SUPPORTED_VERSIONS)
        params == IF parsed.params.v = "One"
                  THEN [parsed.params EXCEPT !.output_substitution = "Disabled"]
                  ELSE parsed.params
    IN  IF ~parsed.ok
        THEN [self |-> self, res |-> parsed.err, state |-> NoState]
        ELSE [self |-> self, res |-> "Ok",
              state |-> [stage |-> "UncheckedProposal",
                         v1 |-> [psbt |-> parsed.psbt, params |-> params],
                         context |-> self.context]]

extract_proposal_from_v1(self, response) ==
    unchecked_from_payload(self, response.text)

extract_proposal_from_v2(self, response) ==
    LET opened == decrypt_message_a(response, self.context.s.sk) IN
    IF ~opened.ok
    THEN [self |-> self, res |-> "Hpke", state |-> NoState]
    ELSE LET self1 == [self EXCEPT !.context.e = opened.e] IN
         IF ~response.inner_utf8
         THEN [self |-> self1, res |-> "Payload", state |-> NoState]
         ELSE unchecked_from_payload(self1, response.text)

\* a proposal value comes to exist / ceases to exist
Produced(ps, state) == ps (+) SetToBag({state})

Consumed(ps, state) == ps (-) SetToBag({state})

\* variant: the receiver is given up when no payload has come
process_res_none_ends(res) ==
    /\ receiver # <<>>
    /\ ohttp_ctx
    /\ ohttp_ctx' = FALSE
    /\ LET self == receiver[1]
           got == process_get_res(res)
       IN  IF ~got.ok
           THEN /\ out' = Out("process_res", "DirectoryResponse", NoRequest)
                /\ UNCHANGED <<receiver, props>>
           ELSE IF ~got.some
           THEN /\ out' = Out("process_res", "OkNone", NoRequest)
                /\ receiver' = <<>>
                /\ UNCHANGED props
           ELSE LET r == IF from_utf8_ok(got.body)
                         THEN extract_proposal_from_v1(self, got.body)
                         ELSE extract_proposal_from_v2(self, got.body)
                IN  /\ receiver' = <<r.self>>
                    /\ out' = Out("process_res", r.res, NoRequest)
                    /\ IF r.res = "Ok"
                       THEN /\ BagCardinality(props) < MaxProps
                            /\ props' = Produced(props, r.state)
                       ELSE UNCHANGED props
    /\ UNCHANGED <<now, new_rcv, store>>

process_res(res) ==
    /\ receiver # <<>>
    /\ ohttp_ctx
    /\ ohttp_ctx' = FALSE
    /\ LET self == receiver[1]
           got == process_get_res(res)
       IN  IF ~got.ok
           THEN /\ out' = Out("process_res", "DirectoryResponse", NoRequest)
                /\ UNCHANGED <<receiver, props>>
           ELSE IF ~got.some
           THEN /\ out' = Out("process_res", "OkNone", NoRequest)
                /\ UNCHANGED <<receiver, props>>
           ELSE LET r == IF from_utf8_ok(got.body)
                         THEN extract_proposal_from_v1(self, got.body)
                         ELSE extract_proposal_from_v2(self, got.body)
                IN  /\ receiver' = <<r.self>>
                    /\ out' = Out("process_res", r.res, NoRequest)
                    /\ IF r.res = "Ok"
                       THEN /\ BagCardinality(props) < MaxProps
                            /\ props' = Produced(props, r.state)
                       ELSE UNCHANGED props
    /\ UNCHANGED <<now, new_rcv, store>>

----------------------------------------------------------------------------
(* The proposal states.  The v1 state machine (crate::receive::v1) does the *)
(* checks; its verdict on the caller's oracle is the input `verdict`.       *)

Stages ==
    <<"UncheckedProposal", "MaybeInputsOwned", "MaybeInputsSeen", "OutputsUnknown",
      "WantsOutputs", "WantsInputs", "ProvisionalProposal", "PayjoinProposal">>

\* what a v1 check answers: Ok, or a ReplyableError
ReplyableErrors == {"Payload", "Implementation"}
Verdicts == {"Ok"} \cup ReplyableErrors

\* v1 checks and commits keep the PSBT and the parameters
v1_next(v1) == v1

\* v1::ProvisionalProposal::finalize_proposal: the Payjoin Proposal PSBT
v1_finalize_proposal(v1) == [v1 EXCEPT !.psbt = "Proposal"]

\* What a PSBT holds.  "Original" is the PSBT of the payloads and of the
\* test vector; "OriginalTwo" is a PSBT of another sender that spends one
\* of the same outpoints.  Values are in units of 10 000 sat.
PsbtInputs(psbt) ==
    CASE psbt = "Original" ->
            << [outpoint |-> "o1", script |-> "spk1", value |-> 9],
               [outpoint |-> "o2", script |-> "spk2", value |-> 7] >>
      [] psbt = "OriginalTwo" ->
            << [outpoint |-> "o3", script |-> "spk3", value |-> 3],
               [outpoint |-> "o2", script |-> "spk2", value |-> 7] >>
      [] OTHER -> << >>

PsbtOutputs(psbt) ==
    CASE psbt = "Original"    -> <<10, 5>>
      [] psbt = "OriginalTwo" -> <<6, 3>>
      [] OTHER                -> << >>

\* what an oracle answers for x: Err, Ok(true) or Ok(false)
Answer(oracle, x) ==
    IF x \in oracle.fails THEN "Err"
    ELSE IF x \in oracle.yes THEN "true"
    ELSE "false"

\* v1::MaybeInputsOwned::check_inputs_not_owned: the input scripts are put
\* to is_owned in order; the first that is owned, or that the oracle fails
\* on, ends the check
RECURSIVE v1_inputs_not_owned_from(_, _, _)
v1_inputs_not_owned_from(inputs, i, is_owned) ==
    IF i > Len(inputs) THEN "Ok"
    ELSE LET a == Answer(is_owned, inputs[i].script) IN
         CASE a = "Err"  -> "Implementation"
           [] a = "true" -> "Payload"
           [] OTHER      -> v1_inputs_not_owned_from(inputs, i + 1, is_owned)

v1_check_inputs_not_owned(v1, is_owned) ==
    v1_inputs_not_owned_from(PsbtInputs(v1.psbt), 1, is_owned)

\* variant: the successor starts from a context without the sender key
NextState_without_e(self, stage, inner) ==
    [stage |-> stage, v1 |-> inner, context |-> [self.context EXCEPT !.e = NoKey]]

\* Ok(Receiver { state: Next { v1: inner, context: self.state.context } })
NextState(self, stage, inner) ==
    [stage |-> stage, v1 |-> inner, context |-> self.context]

\* variant: the value stays next to its successor
Advanced_keeping(ps, self, next) == Produced(ps, next)

\* a method taking `self` by value: on Ok the successor replaces the value
Advanced(ps, self, next) == Produced(Consumed(ps, self), next)

\* variant: the value outlives the failed call
Dropped_keeping(ps, self) == ps

\* on Err the `?` returns and the value is dropped
Dropped(ps, self) == Consumed(ps, self)

\* variant: every transition checks the expiry first
Transition_checking_expiry(op, self, stage, verdict, inner) ==
    /\ BagIn(self, props)
    /\ IF is_expired(self.context, now)
       THEN /\ props' = Dropped(props, self)
            /\ out' = Out(op, "Expired", NoRequest)
       ELSE /\ props' = IF verdict = "Ok"
                        THEN Advanced(props, self, NextState(self, stage, inner))
                        ELSE Dropped(props, self)
            /\ out' = Out(op, verdict, NoRequest)
    /\ UNCHANGED <<now, new_rcv, store, receiver, ohttp_ctx>>

Transition(op, self, stage, verdict, inner) ==
    /\ BagIn(self, props)
    /\ props' = IF verdict = "Ok"
                THEN Advanced(props, self, NextState(self, stage, inner))
                ELSE Dropped(props, self)
    /\ out' = Out(op, verdict, NoRequest)
    /\ UNCHANGED <<now, new_rcv, store, receiver, ohttp_ctx>>

\* variant: the successor is built whatever the v1 check answered
check_broadcast_suitability_unchecked(self, verdict) ==
    /\ self.stage = "UncheckedProposal"
    /\ Transition("check_broadcast_suitability", self, "MaybeInputsOwned",
                  "Ok", v1_next(self.v1))

check_broadcast_suitability(self, verdict) ==
    /\ self.stage = "UncheckedProposal"
    /\ Transition("check_broadcast_suitability", self, "MaybeInputsOwned",
                  verdict, v1_next(self.v1))

assume_interactive_receiver(self) ==
    /\ self.stage = "UncheckedProposal"
    /\ Transition("assume_interactive_receiver", self, "MaybeInputsOwned",
                  "Ok", v1_next(self.v1))

\* variant: the successor is built whatever the v1 check answered
check_inputs_not_owned_unchecked(self, verdict) ==
    /\ self.stage = "MaybeInputsOwned"
    /\ Transition("check_inputs_not_owned", self, "MaybeInputsSeen",
                  "Ok", v1_next(self.v1))

check_inputs_not_owned(self, verdict) ==
    /\ self.stage = "MaybeInputsOwned"
    /\ Transition("check_inputs_not_owned", self, "MaybeInputsSeen",
                  verdict, v1_next(self.v1))

\* variant: the successor is built whatever the v1 check answered
check_no_inputs_seen_before_unchecked(self, verdict) ==
    /\ self.stage = "MaybeInputsSeen"
    /\ Transition("check_no_inputs_seen_before", self, "OutputsUnknown",
                  "Ok", v1_next(self.v1))

check_no_inputs_seen_before(self, verdict) ==
    /\ self.stage = "MaybeInputsSeen"
    /\ Transition("check_no_inputs_seen_before", self, "OutputsUnknown",
                  verdict, v1_next(self.v1))

identify_receiver_outputs(self, verdict) ==
    /\ self.stage = "OutputsUnknown"
    /\ Transition("identify_receiver_outputs", self, "WantsOutputs",
                  verdict, v1_next(self.v1))

\* Receiver<WantsOutputs>::output_substitution
output_substitution(self) == self.v1.params.output_substitution

commit_outputs(self) ==
    /\ self.stage = "WantsOutputs"
    /\ Transition("commit_outputs", self, "WantsInputs", "Ok", v1_next(self.v1))

\* the smallest of a non-empty sequence of amounts
RECURSIVE MinOf(_)
MinOf(amounts) ==
    IF Len(amounts) = 1 THEN amounts[1]
    ELSE LET m == MinOf(Tail(amounts)) IN IF amounts[1] < m THEN amounts[1] ELSE m

\* v1::WantsInputs::try_preserving_privacy: min_in is the smallest input
\* amount once the candidate is added, min_out the smallest output amount;
\* a candidate qualifies when min_in <= min_out; the smallest qualifying
\* candidate is returned, and SelectionError when none qualifies
RECURSIVE v1_select(_, _, _, _)
v1_select(v1, candidates, rest, best) ==
    IF rest = {} THEN best
    ELSE LET x == CHOOSE y \in rest : TRUE
             min_in == MinOf(<<x>> \o [i \in 1..Len(PsbtInputs(v1.psbt)) |->
                                           PsbtInputs(v1.psbt)[i].value])
             min_out == MinOf(PsbtOutputs(v1.psbt))
             qualifies == min_in <= min_out
         IN  v1_select(v1, candidates, rest \ {x},
                       IF qualifies /\ (best = NoInputPair \/ x < best) THEN x ELSE best)

v1_try_preserving_privacy(v1, candidate_inputs) ==
    LET best == v1_select(v1, candidate_inputs, candidate_inputs, NoInputPair)
    IN  IF best = NoInputPair
        THEN [res |-> "SelectionError", chosen |-> NoInputPair]
        ELSE [res |-> "Ok", chosen |-> best]

\* variant: the first candidate at hand is returned, v1 is not consulted
try_preserving_privacy_any(self, candidate_inputs) ==
    /\ BagIn(self, props)
    /\ self.stage = "WantsInputs"
    /\ out' = [OutOf("try_preserving_privacy", self,
                      IF candidate_inputs = {} THEN "SelectionError" ELSE "Ok",
                      NoRequest)
                 EXCEPT !.chosen = IF candidate_inputs = {} THEN NoInputPair
                                   ELSE CHOOSE x \in candidate_inputs :
                                            \A y \in candidate_inputs : y <= x]
    /\ UNCHANGED <<now, new_rcv, store, receiver, ohttp_ctx, props>>

\* Receiver<WantsInputs>::try_preserving_privacy(&self, candidate_inputs)
try_preserving_privacy(self, candidate_inputs) ==
    /\ BagIn(self, props)
    /\ self.stage = "WantsInputs"
    /\ LET selected == v1_try_preserving_privacy(self.v1, candidate_inputs)
       IN  out' = [OutOf("try_preserving_privacy", self, selected.res, NoRequest)
                    EXCEPT !.chosen = selected.chosen]
    /\ UNCHANGED <<now, new_rcv, store, receiver, ohttp_ctx, props>>

commit_inputs(self) ==
    /\ self.stage = "WantsInputs"
    /\ Transition("commit_inputs", self, "ProvisionalProposal", "Ok", v1_next(self.v1))

\* variant: finalize_proposal is offered before the inputs are committed
finalize_proposal_uncommitted(self, verdict) ==
    /\ self.stage \in {"WantsInputs", "ProvisionalProposal"}
    /\ Transition("finalize_proposal", self, "PayjoinProposal",
                  verdict, v1_finalize_proposal(self.v1))

finalize_proposal(self, verdict) ==
    /\ self.stage = "ProvisionalProposal"
    /\ Transition("finalize_proposal", self, "PayjoinProposal",
                  verdict, v1_finalize_proposal(self.v1))

----------------------------------------------------------------------------
(* Requests of the proposal states *)

\* JsonReply::new(code, message): the message is the Display text
JsonReply_new(code, message) == [errorCode |-> code, message |-> message]

\* The v1 request errors: InternalRequestError, with what the variant holds
RequestErrorInputs ==
    { [type |-> "RequestError", variant |-> "Io", text |-> "broken pipe"],
      [type |-> "RequestError", variant |-> "MissingHeader", text |-> "Content-Type"],
      [type |-> "RequestError", variant |-> "MissingHeader", text |-> "Content-Length"],
      [type |-> "RequestError", variant |-> "InvalidContentType", text |-> "text/html"],
      [type |-> "RequestError", variant |-> "InvalidContentLength",
       text |-> "invalid digit found in string"],
      [type |-> "RequestError", variant |-> "ContentLengthTooLarge", text |-> "4000001"] }

\* impl fmt::Display for RequestError: the pieces of the text written
RequestError_fmt(e) ==
    CASE e.variant = "Io"                    -> <<e.text>>
      [] e.variant = "MissingHeader"         -> <<"Missing header: ", e.text>>
      [] e.variant = "InvalidContentType"    -> <<"Invalid content type: ", e.text>>
      [] e.variant = "InvalidContentLength"  -> <<e.text>>
      [] e.variant = "ContentLengthTooLarge" -> <<"Content length too large: ", e.text, ".">>

\* variant: an I/O error is reported as the receiver's own failure
JsonReply_from_RequestError_io_unavailable(e) ==
    CASE e.variant = "Io" -> JsonReply_new("unavailable", RequestError_fmt(e))
      [] OTHER            -> JsonReply_new("original-psbt-rejected", RequestError_fmt(e))

\* impl From<&RequestError> for JsonReply
JsonReply_from_RequestError(e) ==
    CASE e.variant = "Io" ->
            JsonReply_new("original-psbt-rejected", RequestError_fmt(e))
      [] e.variant = "MissingHeader" ->
            JsonReply_new("original-psbt-rejected", RequestError_fmt(e))
      [] e.variant = "InvalidContentType" ->
            JsonReply_new("original-psbt-rejected", RequestError_fmt(e))
      [] e.variant = "InvalidContentLength" ->
            JsonReply_new("original-psbt-rejected", RequestError_fmt(e))
      [] e.variant = "ContentLengthTooLarge" ->
            JsonReply_new("original-psbt-rejected", RequestError_fmt(e))

\* what can_broadcast answers: Ok(true), Ok(false), or Err with a text
CanBroadcastInputs == {"true", "false", "mock error", "node unreachable"}

\* the ReplyableError a guard returns, with the text of what caused it
ReplyableError(variant, text) ==
    [type |-> "ReplyableError", variant |-> variant, text |-> text]

\* v1::UncheckedProposal::check_broadcast_suitability(None, can_broadcast)
v1_check_broadcast_suitability(v1, can_broadcast) ==
    CASE can_broadcast = "true" ->
            [res |-> "Ok", error |-> NoError]
      [] can_broadcast = "false" ->
            [res |-> "Payload",
             error |-> ReplyableError("Payload", "Can't broadcast.")]
      [] OTHER ->
            [res |-> "Implementation",
             error |-> ReplyableError("Implementation", can_broadcast)]

\* impl From<&ReplyableError> for JsonReply
JsonReply_from_ReplyableError(e) ==
    CASE e.variant = "Implementation" -> JsonReply_new("unavailable", <<"Receiver error">>)
      [] OTHER -> JsonReply_new("original-psbt-rejected", <<e.text>>)

\* the errors the caller turns into the reply it sends
ReplyableErrorInputs ==
    { v1_check_broadcast_suitability(NoState.v1, can_broadcast).error :
        can_broadcast \in CanBroadcastInputs \ {"true"} }

\* err: &JsonReply
JsonReplyInputs ==
    { JsonReply_from_ReplyableError(e) :
        e \in { ReplyableError("Implementation", "mock error"),
                ReplyableError("Payload", "Can't broadcast.") } }

\* err.to_json().to_string().as_bytes()
JsonBody(err) == [seal |-> NoKey, fmt |-> "json", content |-> err]

\* a method taking &mut self: the value stays, with its context as left
Mutated(ps, self, context) ==
    Produced(Consumed(ps, self), [self EXCEPT !.context = context])

\* Receiver<UncheckedProposal>::extract_err_req
extract_err_req(self, err, ohttp_relay) ==
    /\ BagIn(self, props)
    /\ self.stage = "UncheckedProposal"
    /\ LET target == subdir(self.context.directory, id(self.context))
           enc == ohttp_encapsulate(self.context.ohttp_keys, "POST", target, JsonBody(err))
           url == full_relay_url(self.context, ohttp_relay)
       IN  /\ props' = Mutated(props, self,
                               [self.context EXCEPT !.ohttp_keys = enc.ohttp_keys])
           /\ out' = IF url.ok
                     THEN OutOf("extract_err_req", self, "Ok",
                                new_v2(url.url, enc.envelope))
                     ELSE OutOf("extract_err_req", self, "ParseUrl", NoRequest)
    /\ UNCHANGED <<now, new_rcv, store, receiver, ohttp_ctx>>

\* crate::hpke::encrypt_message_b(body, &s, e)
encrypt_message_b(body, s, e) == [body EXCEPT !.seal = e]

\* psbt.serialize()
PsbtBytes(psbt) == [seal |-> NoKey, fmt |-> "bytes", content |-> psbt]

\* psbt.to_string().as_bytes(): the base64 text
PsbtBase64(psbt) == [seal |-> NoKey, fmt |-> "base64", content |-> psbt]

\* variant: the v1 form of the reply whatever the context holds
proposal_req_parts_v1(self) ==
    [target |-> UrlJoin(self.context.directory,
                        subdir_path_from_pubkey(self.context.s.pk)),
     body |-> PsbtBase64(self.v1.psbt),
     method |-> "PUT"]

\* the branch of Receiver<PayjoinProposal>::extract_req
proposal_req_parts(self) ==
    IF self.context.e # NoKey
    THEN [target |-> UrlJoin(self.context.directory,
                             subdir_path_from_pubkey(self.context.e)),
          body |-> encrypt_message_b(PsbtBytes(self.v1.psbt), self.context.s,
                                     self.context.e),
          method |-> "POST"]
    ELSE [target |-> UrlJoin(self.context.directory,
                             subdir_path_from_pubkey(self.context.s.pk)),
          body |-> PsbtBase64(self.v1.psbt),
          method |-> "PUT"]

\* Receiver<PayjoinProposal>::extract_req
PayjoinProposal_extract_req(self, ohttp_relay) ==
    /\ BagIn(self, props)
    /\ self.stage = "PayjoinProposal"
    /\ LET parts == proposal_req_parts(self)
           enc == ohttp_encapsulate(self.context.ohttp_keys, parts.method,
                                    parts.target, parts.body)
           url == full_relay_url(self.context, ohttp_relay)
       IN  /\ props' = Mutated(props, self,
                               [self.context EXCEPT !.ohttp_keys = enc.ohttp_keys])
           /\ out' = IF url.ok
                     THEN OutOf("proposal_extract_req", self, "Ok",
                                new_v2(url.url, enc.envelope))
                     ELSE OutOf("proposal_extract_req", self, "ParseUrl", NoRequest)
    /\ UNCHANGED <<now, new_rcv, store, receiver, ohttp_ctx>>

----------------------------------------------------------------------------
\* The session of Spec: what the v1 checks answer is an input (verdict), so
\* the caller's side plays no part.
Next ==
    \/ persist /\ UNCHANGED caller
    \/ load /\ UNCHANGED caller
    \/ Tick /\ UNCHANGED caller
    \/ /\ \E ohttp_relay \in RelayInputs : WithContext_extract_req(ohttp_relay)
       /\ UNCHANGED caller
    \/ /\ \E res \in ResponseInputs : process_res(res)
       /\ UNCHANGED caller
    \/ /\ \E self \in BagToSet(props), verdict \in Verdicts :
             check_broadcast_suitability(self, verdict)
       /\ UNCHANGED caller
    \/ /\ \E self \in BagToSet(props) : assume_interactive_receiver(self)
       /\ UNCHANGED caller
    \/ /\ \E self \in BagToSet(props), verdict \in Verdicts :
             check_inputs_not_owned(self, verdict)
       /\ UNCHANGED caller
    \/ /\ \E self \in BagToSet(props), verdict \in Verdicts :
             check_no_inputs_seen_before(self, verdict)
       /\ UNCHANGED caller
    \/ /\ \E self \in BagToSet(props), verdict \in Verdicts :
             identify_receiver_outputs(self, verdict)
       /\ UNCHANGED caller
    \/ /\ \E self \in BagToSet(props) : commit_outputs(self)
       /\ UNCHANGED caller
    \/ /\ \E self \in BagToSet(props) : commit_inputs(self)
       /\ UNCHANGED caller
    \/ /\ \E self \in BagToSet(props), verdict \in Verdicts :
             finalize_proposal(self, verdict)
       /\ UNCHANGED caller
    \/ /\ \E self \in BagToSet(props), err \in JsonReplyInputs,
             ohttp_relay \in RelayInputs :
             extract_err_req(self, err, ohttp_relay)
       /\ UNCHANGED caller
    \/ /\ \E self \in BagToSet(props), ohttp_relay \in RelayInputs :
             PayjoinProposal_extract_req(self, ohttp_relay)
       /\ UNCHANGED caller

Spec == Init /\ [][Next]_vars

----------------------------------------------------------------------------
(* The session before a payload has come.  SpecSession draws the arguments *)
(* and the time of NewReceiver::new and follows the receiver through       *)
(* persist, load, pj_uri and the poll request.                             *)

\* SystemTime::now() when NewReceiver::new is called
CreationTimes == {0, 1}

\* expire_after, None included
ExpireAfterOptions == {<<>>, <<1>>, <<2>>}

InitSession ==
    /\ now \in CreationTimes
    /\ \E directory \in DirectoryInputs, expire_after \in ExpireAfterOptions :
          /\ new_rcv = NewReceiver_new("addr", directory, "fresh", expire_after, now)
          /\ arg = [NoArg EXCEPT !.expire_after = expire_after]
    /\ store = <<>>
    /\ receiver = <<>>
    /\ ohttp_ctx = FALSE
    /\ props = EmptyBag
    /\ out = Out("new", "Ok", NoRequest)
    /\ seen = {}
    /\ calls = {}

NextSession ==
    \/ persist /\ UNCHANGED caller
    \/ load /\ UNCHANGED caller
    \/ Tick /\ UNCHANGED caller
    \/ pj_uri /\ UNCHANGED caller
    \/ /\ \E ohttp_relay \in RelayInputs : WithContext_extract_req(ohttp_relay)
       /\ UNCHANGED caller

SpecSession == InitSession /\ [][NextSession]_vars

----------------------------------------------------------------------------
(* The replies of a session.  SpecReplies draws the directory of the       *)
(* session and follows it from NewReceiver::new to the requests that carry *)
(* the replies; the caller keeps the relay it passed, the response it      *)
(* passed to process_res and the payload its proposal came from.           *)

\* directories of two hosts, with every shape of path: empty, without and
\* with a trailing slash
ReplyDirectories ==
    { [host |-> "dir", path |-> <<"">>],
      [host |-> "dir", path |-> <<"a">>],
      [host |-> "dir2", path |-> <<"a", "">>] }

ReplyRelays == {"relay", "relay2"}

\* what the directory answers to the poll: nothing yet, a plaintext payload
\* of either version or without a query line, or a sealed payload that
\* parses or does not
ReplyResponses ==
    { [status |-> "accepted", body |-> NoBodyInput] }
    \cup { [status |-> "ok", body |-> PlainBody(t)] :
             t \in { <<"PSBT", "\n", "v=1">>, <<"PSBT", "\n", "v=2">>, <<"PSBT">> } }
    \cup { [status |-> "ok", body |-> SealedBody("s_pub", e, TRUE, <<"PSBT", "\n", "v=2">>)] :
             e \in SenderKeys }
    \cup { [status |-> "ok", body |-> SealedBody("s_pub", "e1", TRUE, <<"PSBT", "\n", "v=3">>)] }

\* what the caller holds after passing `ohttp_relay` or `response`
Passing(ohttp_relay, response, payload) ==
    [NoArg EXCEPT !.expire_after = arg.expire_after,
                  !.ohttp_relay = ohttp_relay,
                  !.response = response,
                  !.payload = payload]

InitReplies ==
    /\ now = 0
    /\ \E directory \in ReplyDirectories, expire_after \in ExpireAfterInputs :
          /\ new_rcv = NewReceiver_new("addr", directory, "fresh", expire_after, now)
          /\ arg = [NoArg EXCEPT !.expire_after = expire_after]
    /\ store = <<>>
    /\ receiver = <<>>
    /\ ohttp_ctx = FALSE
    /\ props = EmptyBag
    /\ out = Out("new", "Ok", NoRequest)
    /\ seen = {}
    /\ calls = {}

NextReplies ==
    \/ /\ persist
       /\ arg' = Passing("none", NoResponse, arg.payload)
       /\ UNCHANGED <<seen, calls>>
    \/ /\ load
       /\ arg' = Passing("none", NoResponse, arg.payload)
       /\ UNCHANGED <<seen, calls>>
    \/ /\ \E ohttp_relay \in ReplyRelays :
             /\ WithContext_extract_req(ohttp_relay)
             /\ arg' = Passing(ohttp_relay, NoResponse, arg.payload)
       /\ UNCHANGED <<seen, calls>>
    \/ /\ \E res \in ReplyResponses :
             /\ process_res(res)
             /\ arg' = Passing("none", res,
                               IF out'.res = "Ok" THEN res.body ELSE arg.payload)
       /\ UNCHANGED <<seen, calls>>
    \/ /\ \E self \in BagToSet(props) :
             \/ assume_interactive_receiver(self)
             \/ check_inputs_not_owned(self, "Ok")
             \/ check_no_inputs_seen_before(self, "Ok")
             \/ identify_receiver_outputs(self, "Ok")
             \/ commit_outputs(self)
             \/ commit_inputs(self)
             \/ finalize_proposal(self, "Ok")
       /\ arg' = Passing("none", NoResponse, arg.payload)
       /\ UNCHANGED <<seen, calls>>
    \/ /\ \E self \in BagToSet(props), err \in JsonReplyInputs,
             ohttp_relay \in ReplyRelays :
             /\ extract_err_req(self, err, ohttp_relay)
             /\ arg' = Passing(ohttp_relay, NoResponse, arg.payload)
       /\ UNCHANGED <<seen, calls>>
    \/ /\ \E self \in BagToSet(props), ohttp_relay \in ReplyRelays :
             /\ PayjoinProposal_extract_req(self, ohttp_relay)
             /\ arg' = Passing(ohttp_relay, NoResponse, arg.payload)
       /\ UNCHANGED <<seen, calls>>

SpecReplies == InitReplies /\ [][NextReplies]_vars

----------------------------------------------------------------------------
(* The checks with the caller's oracles.  SpecChecks starts where the tests *)
(* of mod.rs start: proposals built on SHARED_CONTEXT and                   *)
(* SHARED_CONTEXT_TWO, the first one cloned; the caller passes its oracles  *)
(* and the v1 checks answer on them.                                        *)

EXAMPLE_URL == [host |-> "example.com", path |-> <<"">>]

SIXTY_SECONDS == 60

SHARED_CONTEXT ==
    [address |-> "addr", directory |-> EXAMPLE_URL, subdirectory |-> "None",
     ohttp_keys |-> "fresh", expiry |-> SIXTY_SECONDS, s |-> ReceiverKeyPair,
     e |-> NoKey]

SHARED_CONTEXT_TWO ==
    [address |-> "addr2", directory |-> EXAMPLE_URL, subdirectory |-> "None",
     ohttp_keys |-> "fresh", expiry |-> SIXTY_SECONDS,
     s |-> [sk |-> "s2_sec", pk |-> "s2_pub"], e |-> NoKey]

\* Receiver { state: UncheckedProposal { v1, context } }
TestProposal(psbt, context) ==
    [stage |-> "UncheckedProposal",
     v1 |-> [psbt |-> psbt,
             params |-> [v |-> "Two", output_substitution |-> "Enabled"]],
     context |-> context]

ProposalOne == TestProposal("Original", SHARED_CONTEXT)
ProposalTwo == TestProposal("OriginalTwo", SHARED_CONTEXT_TWO)

\* the proposals a run starts with: a proposal and its clone, or the
\* proposals of two sessions
ProposalInputs ==
    { SetToBag({ProposalOne}) (+) SetToBag({ProposalOne}),
      SetToBag({ProposalOne, ProposalTwo}) }

Scripts == {"spk1", "spk2", "spk3"}

\* is_owned: impl Fn(&Script) -> Result<bool, ImplementationError>
IsOwnedInputs ==
    { [yes |-> {}, fails |-> {}],
      [yes |-> {"spk2"}, fails |-> {}],
      [yes |-> {"spk1", "spk3"}, fails |-> {}],
      [yes |-> {}, fails |-> {"spk2"}],
      [yes |-> {"spk2"}, fails |-> {"spk1"}] }

\* the outpoints of the inputs of the PSBT of a proposal, in order
InputOutPoints(self) ==
    [i \in 1..Len(PsbtInputs(self.v1.psbt)) |-> PsbtInputs(self.v1.psbt)[i].outpoint]

\* The caller's is_known: one atomic test-and-set on the store of the
\* outpoints seen, which answers whether the outpoint was there and leaves
\* it there.
is_known(outpoint, known) ==
    [answer |-> IF outpoint \in known THEN "true" ELSE "false",
     known |-> known \cup {outpoint}]

\* check_no_inputs_seen_before(self, is_known) is entered: self is moved
\* into the call, which has put no outpoint to the oracle yet.  (The value
\* stays in props until the call returns; no other operation is offered at
\* its stage.)
enter_check_no_inputs_seen_before(self) ==
    /\ BagIn(self, props)
    /\ self.stage = "MaybeInputsSeen"
    /\ \A c \in calls : c.self # self
    /\ calls' = calls \cup {[self |-> self, i |-> 1]}
    /\ out' = Out("enter_check_no_inputs_seen_before", "Ok", NoRequest)
    /\ arg' = NoArg
    /\ UNCHANGED <<now, new_rcv, store, receiver, ohttp_ctx, props, seen>>

\* v1::MaybeInputsSeen::check_no_inputs_seen_before puts the next outpoint
\* to is_known: on Ok(true) the check ends with InputSeen, on Ok(false) it
\* goes on to the next input, and after the last one it ends with Ok.  When
\* the v1 check has ended, check_no_inputs_seen_before returns.
ask_is_known(c) ==
    /\ c \in calls
    /\ LET asked == is_known(InputOutPoints(c.self)[c.i], seen) IN
       /\ seen' = asked.known
       /\ arg' = NoArg
       /\ IF asked.answer = "true"
          THEN /\ check_no_inputs_seen_before(c.self, "Payload")
               /\ calls' = calls \ {c}
          ELSE IF c.i = Len(InputOutPoints(c.self))
          THEN /\ check_no_inputs_seen_before(c.self, "Ok")
               /\ calls' = calls \ {c}
          ELSE /\ calls' = (calls \ {c}) \cup {[c EXCEPT !.i = c.i + 1]}
               /\ out' = Out("is_known", "false", NoRequest)
               /\ UNCHANGED <<now, new_rcv, store, receiver, ohttp_ctx, props>>

\* candidate_inputs: the receiver's coins, by amount (units of 10 000 sat)
CandidateInputs == SUBSET {2, 4, 6}

InitChecks ==
    /\ now = 0
    /\ new_rcv = [context |-> SHARED_CONTEXT]
    /\ store = <<>>
    /\ receiver = <<>>
    /\ ohttp_ctx = FALSE
    /\ props \in ProposalInputs
    /\ out = Out("new", "Ok", NoRequest)
    /\ arg = NoArg
    /\ seen = {}
    /\ calls = {}

NextChecks ==
    \/ \E self \in BagToSet(props), can_broadcast \in CanBroadcastInputs :
          /\ check_broadcast_suitability(
                self, v1_check_broadcast_suitability(self.v1, can_broadcast).res)
          /\ arg' = [NoArg EXCEPT !.can_broadcast = can_broadcast]
          /\ UNCHANGED <<seen, calls>>
    \/ \E self \in BagToSet(props), e \in ReplyableErrorInputs,
          ohttp_relay \in RelayInputs :
          /\ extract_err_req(self, JsonReply_from_ReplyableError(e), ohttp_relay)
          /\ arg' = [NoArg EXCEPT !.error = e]
          /\ UNCHANGED <<seen, calls>>
    \/ \E self \in BagToSet(props), e \in RequestErrorInputs,
          ohttp_relay \in RelayInputs :
          /\ extract_err_req(self, JsonReply_from_RequestError(e), ohttp_relay)
          /\ arg' = [NoArg EXCEPT !.error = e]
          /\ UNCHANGED <<seen, calls>>
    \/ /\ \E self \in BagToSet(props) : assume_interactive_receiver(self)
       /\ arg' = NoArg
       /\ UNCHANGED <<seen, calls>>
    \/ \E self \in BagToSet(props), is_owned \in IsOwnedInputs :
          /\ check_inputs_not_owned(self, v1_check_inputs_not_owned(self.v1, is_owned))
          /\ arg' = [NoArg EXCEPT !.is_owned = is_owned]
          /\ UNCHANGED <<seen, calls>>
    \/ \E self \in BagToSet(props) : enter_check_no_inputs_seen_before(self)
    \/ \E c \in calls : ask_is_known(c)
    \/ /\ \E self \in BagToSet(props) : identify_receiver_outputs(self, "Ok")
       /\ arg' = NoArg
       /\ UNCHANGED <<seen, calls>>
    \/ /\ \E self \in BagToSet(props) : commit_outputs(self)
       /\ arg' = NoArg
       /\ UNCHANGED <<seen, calls>>
    \/ \E self \in BagToSet(props), candidate_inputs \in CandidateInputs :
          /\ try_preserving_privacy(self, candidate_inputs)
          /\ arg' = [NoArg EXCEPT !.candidate_inputs = candidate_inputs]
          /\ UNCHANGED <<seen, calls>>

SpecChecks == InitChecks /\ [][NextChecks]_vars

----------------------------------------------------------------------------
(* Vocabulary of the properties *)

Live == BagToSet(props)

Rank(stage) == CHOOSE k \in 1..Len(Stages) : Stages[k] = stage

\* the operations that lead into each stage
OpsInto(stage) ==
    CASE stage = "MaybeInputsOwned" ->
            {"check_broadcast_suitability", "assume_interactive_receiver"}
      [] stage = "MaybeInputsSeen"     -> {"check_inputs_not_owned"}
      [] stage = "OutputsUnknown"      -> {"check_no_inputs_seen_before"}
      [] stage = "WantsOutputs"        -> {"identify_receiver_outputs"}
      [] stage = "WantsInputs"         -> {"commit_outputs"}
      [] stage = "ProvisionalProposal" -> {"commit_inputs"}
      [] stage = "PayjoinProposal"     -> {"finalize_proposal"}
      [] OTHER                         -> {}

FallibleGuardOps ==
    {"check_broadcast_suitability", "check_inputs_not_owned",
     "check_no_inputs_seen_before", "identify_receiver_outputs", "finalize_proposal"}

GuardOps ==
    FallibleGuardOps \cup {"assume_interactive_receiver", "commit_outputs", "commit_inputs"}

RequestOps == {"extract_err_req", "proposal_extract_req"}

\* the expiry of the session: every context of the session is a clone of
\* the NewReceiver's
SessionExpiry == new_rcv.context.expiry

LastSegment(url) == url.path[Len(url.path)]

----------------------------------------------------------------------------
(* C1 *)

\* C1: every proposal state whose parsed version is One has output
\* substitution Disabled, in UncheckedProposal and in every later stage,
\* whatever the payload declared.
C1_V1OutputSubstitutionDisabled ==
    \A p \in Live : p.v1.params.v = "One" => output_substitution(p) = "Disabled"

\* a version One proposal has come as far as WantsOutputs, where
\* output_substitution() is offered
C1_Witness ==
    \E p \in Live :
        /\ p.stage = "WantsOutputs"
        /\ p.v1.params.v = "One"
        /\ output_substitution(p) = "Disabled"

----------------------------------------------------------------------------
(* C2 *)

----------------------------------------------------------------------------
(* C3 *)

\* C3: Receiver<WithContext>::extract_req returns Expired exactly when
\* now > expiry; it then builds no request and leaves the receiver (its
\* context, ohttp_keys included) and the pending response context as they
\* were; and an expired session stays expired.
C3_PollExpired ==
    [][/\ out'.op = "extract_req" =>
            /\ (out'.res = "Expired") <=> (now > receiver[1].context.expiry)
            /\ out'.res = "Expired" =>
                    /\ out'.req = NoRequest
                    /\ receiver' = receiver
                    /\ ohttp_ctx' = ohttp_ctx
       /\ (receiver # <<>> /\ now > receiver[1].context.expiry) =>
            (receiver' # <<>> /\ now' > receiver'[1].context.expiry)]_vars

\* the poll was refused for expiry
C3_Witness ==
    /\ out.op = "extract_req"
    /\ out.res = "Expired"
    /\ now > receiver[1].context.expiry

----------------------------------------------------------------------------
(* C4 *)

\* C4 as stated: once the receiver's context holds a sender key e, the key
\* never changes.
C4_SenderKeySetOnce ==
    [][(receiver # <<>> /\ receiver[1].context.e # NoKey)
        => (receiver' # <<>> /\ receiver'[1].context.e = receiver[1].context.e)]_vars

----------------------------------------------------------------------------
(* C5 *)

\* C5 as stated: a request built by extract_err_req or by
\* PayjoinProposal::extract_req on a state whose context holds e carries a
\* body sealed to e.
C5_SealedOnceKeySet ==
    (out.op \in RequestOps /\ out.res = "Ok" /\ out.self.context.e # NoKey)
        => out.req.body.seal = out.self.context.e

----------------------------------------------------------------------------
(* C6 *)

----------------------------------------------------------------------------
(* C7 *)

\* C7: a proposal value comes to exist only as the UncheckedProposal that
\* process_res returns, as the successor at the next stage of a value that
\* the operation leading into that stage takes away, or as the same stage
\* left by a request builder.  So a PayjoinProposal has passed all eight
\* stages in order.
C7_OrderedStages ==
    [][\A v \in BagToSet(props') :
        CopiesIn(v, props') > CopiesIn(v, props) =>
            \/ v.stage = "UncheckedProposal" /\ out'.op = "process_res"
            \/ /\ out'.op \in RequestOps
               /\ \E u \in Live : u.stage = v.stage
                                  /\ CopiesIn(u, props') < CopiesIn(u, props)
            \/ /\ out'.op \in OpsInto(v.stage)
               /\ \E u \in Live : /\ Rank(u.stage) + 1 = Rank(v.stage)
                                  /\ CopiesIn(u, props') < CopiesIn(u, props)]_vars

\* a PayjoinProposal has been reached
C7_Witness ==
    /\ out.op = "finalize_proposal"
    /\ out.res = "Ok"
    /\ \E p \in Live : p.stage = "PayjoinProposal"

----------------------------------------------------------------------------
(* C8 *)

\* C8 as stated: the stage that has produced its successor cannot be used
\* again, Receiver<WithContext> included; so once process_res has returned
\* a proposal the receiver is gone.
C8_Original ==
    [][(out'.op = "process_res" /\ out'.res = "Ok") => receiver' = <<>>]_vars

\* C8 amended: a guard takes the value it is called on away and leaves at
\* most one successor, so the number of live values does not grow; while
\* process_res leaves the Receiver<WithContext> in place.
C8_GuardsConsume ==
    [][/\ (out'.op \in GuardOps /\ out'.res = "Ok") =>
            /\ BagCardinality(props') = BagCardinality(props)
            /\ \E u \in Live : CopiesIn(u, props') = CopiesIn(u, props) - 1
       /\ out'.op = "process_res" => receiver' # <<>>]_vars

\* a guard has advanced a proposal, and the receiver that produced the
\* proposal can poll again
C8_Witness ==
    /\ out.op = "check_inputs_not_owned"
    /\ out.res = "Ok"
    /\ \E p \in Live : p.stage = "MaybeInputsSeen"
    /\ ENABLED (\E ohttp_relay \in RelayInputs : WithContext_extract_req(ohttp_relay))

----------------------------------------------------------------------------
(* C9 *)

\* C9 as stated: for every live proposal state, at whatever stage, an
\* error request can be built with extract_err_req.
C9_ErrReqAtEveryStage ==
    \A p \in Live :
        ENABLED (\E err \in JsonReplyInputs, ohttp_relay \in RelayInputs :
                    extract_err_req(p, err, ohttp_relay))

----------------------------------------------------------------------------
(* C10 *)

\* C10: a fallible guard that does not return Ok returns a ReplyableError,
\* takes the value it was called on away and leaves no successor: one value
\* fewer is live and no value has more copies than before.
C10_FailedGuardConsumes ==
    [][(out'.op \in FallibleGuardOps /\ out'.res # "Ok") =>
            /\ out'.res \in ReplyableErrors
            /\ BagCardinality(props') = BagCardinality(props) - 1
            /\ \A v \in BagToSet(props') : CopiesIn(v, props') <= CopiesIn(v, props)]_vars

\* a guard has failed
C10_Witness ==
    /\ out.op \in FallibleGuardOps
    /\ out.res \in ReplyableErrors

----------------------------------------------------------------------------
(* C11 *)

\* the scripts of the inputs of the PSBT of a proposal
InputScripts(self) ==
    { PsbtInputs(self.v1.psbt)[i].script : i \in 1..Len(PsbtInputs(self.v1.psbt)) }

\* the value the last guard was called on: the one that is gone
CalledOn(stage) ==
    { v \in Live : v.stage = stage /\ CopiesIn(v, props') < CopiesIn(v, props) }

\* C11 as stated: check_inputs_not_owned returns Ok exactly when the
\* oracle reports no input script of the Original PSBT as owned.
C11_Original ==
    [][out'.op = "check_inputs_not_owned" =>
        \A self \in CalledOn("MaybeInputsOwned") :
            (out'.res = "Ok") <=>
                (\A script \in InputScripts(self) :
                    Answer(arg'.is_owned, script) # "true")]_vars

\* C11 amended: check_inputs_not_owned returns Ok, with the successor at
\* MaybeInputsSeen, exactly when the oracle answers Ok(false) for every
\* input script of the Original PSBT; when an answer is Ok(true) or Err it
\* returns a ReplyableError and there is no successor.
C11_InputsNotOwned ==
    [][out'.op = "check_inputs_not_owned" =>
        \A self \in CalledOn("MaybeInputsOwned") :
            /\ (out'.res = "Ok") <=>
                    (\A script \in InputScripts(self) :
                        Answer(arg'.is_owned, script) = "false")
            /\ out'.res = "Ok" =>
                    BagIn(NextState(self, "MaybeInputsSeen", self.v1), props')
            /\ out'.res # "Ok" =>
                    /\ out'.res \in ReplyableErrors
                    /\ BagCardinality(props') < BagCardinality(props)]_vars

\* the check has refused a PSBT with an owned input, on an oracle that
\* answered Ok(false) for the input before it
C11_Witness ==
    /\ out.op = "check_inputs_not_owned"
    /\ out.res = "Payload"
    /\ arg.is_owned = [yes |-> {"spk2"}, fails |-> {}]

----------------------------------------------------------------------------
(* C12 *)

\* the proposals that check_no_inputs_seen_before has let through
Passed == { v \in Live : Rank(v.stage) >= Rank("OutputsUnknown") }

\* C12: when check_no_inputs_seen_before has let a proposal through on the
\* recording oracle, a further call on the same proposal (a clone of it as
\* it was at MaybeInputsSeen: the same PSBT in the same session) returns a
\* ReplyableError and no second successor.
C12_SecondCallFails ==
    [][out'.op = "check_no_inputs_seen_before" =>
        \A self \in CalledOn("MaybeInputsSeen") :
            (\E v \in Passed : v.v1 = self.v1 /\ v.context = self.context) =>
                /\ out'.res \in ReplyableErrors
                /\ BagCardinality(props') < BagCardinality(props)]_vars

\* the first call has let the proposal through and the second one, on its
\* clone, has failed
C12_Witness ==
    /\ out.op = "check_no_inputs_seen_before"
    /\ out.res = "Payload"
    /\ BagCardinality(props) = 1
    /\ \E v \in Passed : v.v1 = ProposalOne.v1 /\ v.context = ProposalOne.context

----------------------------------------------------------------------------
(* C13 *)

\* the outpoints a proposal spends
OutPointsOf(v) == { InputOutPoints(v)[i] : i \in DOMAIN InputOutPoints(v) }

\* the sessions whose proposal values a step has touched
Touched == { v.context.s : v \in { u \in Live \cup BagToSet(props') :
                                      CopiesIn(u, props') # CopiesIn(u, props) } }

\* C13: of two sessions whose PSBTs share an outpoint, at most one gets
\* through check_no_inputs_seen_before, whatever the order in which their
\* calls put their outpoints to the atomic oracle; and a step of one
\* session touches no proposal value of the other, so the store of the
\* oracle is all they share.
C13_AtMostOnePasses ==
    [][/\ \A v \in Passed', w \in Passed' :
            v.context.s # w.context.s => OutPointsOf(v) \cap OutPointsOf(w) = {}
       /\ Cardinality(Touched) <= 1]_vars

\* the calls of the two sessions overlap: the second session has got
\* through while the call of the first, which has put its first outpoint to
\* the oracle, has yet to put the shared one
C13_Witness ==
    /\ out.op = "check_no_inputs_seen_before"
    /\ out.res = "Ok"
    /\ \E v \in Passed : v.context = SHARED_CONTEXT_TWO
    /\ \E c \in calls : c.self.context = SHARED_CONTEXT /\ c.i = 2

----------------------------------------------------------------------------
(* C14 *)

\* the amounts of the inputs and of the outputs of the transaction that
\* results from adding the input x to the proposal
ResultingInputs(self, x) ==
    {x} \cup { PsbtInputs(self.v1.psbt)[i].value : i \in 1..Len(PsbtInputs(self.v1.psbt)) }

ResultingOutputs(self) ==
    { PsbtOutputs(self.v1.psbt)[i] : i \in 1..Len(PsbtOutputs(self.v1.psbt)) }

Qualifies(self, x) ==
    \E a \in ResultingInputs(self, x) :
        /\ \A b \in ResultingInputs(self, x) : a <= b
        /\ \A c \in ResultingOutputs(self) : a <= c

----------------------------------------------------------------------------
(* C15 *)

\* C15: the reply that is sent for a v1 RequestError, whatever its variant,
\* has the errorCode original-psbt-rejected and the Display text of the
\* error as its message.
C15_RequestErrorReply ==
    (out.op = "extract_err_req" /\ out.res = "Ok" /\ arg.error.type = "RequestError")
        => /\ out.req.body.fmt = "json"
           /\ out.req.body.content.errorCode = "original-psbt-rejected"
           /\ out.req.body.content.message = RequestError_fmt(arg.error)

\* the reply for an I/O error has been sent
C15_Witness ==
    /\ out.op = "extract_err_req"
    /\ out.res = "Ok"
    /\ arg.error.type = "RequestError"
    /\ arg.error.variant = "Io"
    /\ out.req.body.content.message = <<"broken pipe">>

----------------------------------------------------------------------------
(* C16 *)

UnavailableReply == [errorCode |-> "unavailable", message |-> <<"Receiver error">>]

\* C16: when can_broadcast returns an error, check_broadcast_suitability
\* returns ReplyableError::Implementation, whose JSON reply is
\* {errorCode: unavailable, message: Receiver error} whatever the text of
\* the oracle's error; and the request extract_err_req builds for such an
\* error is a POST of exactly that reply.
C16_ImplementationReply ==
    [][/\ (out'.op = "check_broadcast_suitability"
            /\ arg'.can_broadcast \notin {"true", "false"}) =>
            /\ out'.res = "Implementation"
            /\ \A self \in CalledOn("UncheckedProposal") :
                 JsonReply_from_ReplyableError(
                    v1_check_broadcast_suitability(self.v1, arg'.can_broadcast).error)
                 = UnavailableReply
       /\ (out'.op = "extract_err_req" /\ out'.res = "Ok"
            /\ arg'.error.type = "ReplyableError"
            /\ arg'.error.variant = "Implementation") =>
            /\ out'.req.method = "POST"
            /\ out'.req.body = JsonBody(UnavailableReply)]_vars

\* check_broadcast_suitability has failed on a clone of the proposal for an
\* oracle error, and the reply for that error has been sent from the
\* proposal itself
C16_Witness ==
    /\ out.op = "extract_err_req"
    /\ out.res = "Ok"
    /\ arg.error = ReplyableError("Implementation", "mock error")
    /\ out.req.body.content = UnavailableReply
    /\ BagCardinality(props) = 1
    /\ out.self = ProposalOne

----------------------------------------------------------------------------
(* C17 *)

----------------------------------------------------------------------------
(* C18 *)

\* C18: a poll request or a PjUri is produced only by a receiver that load
\* has returned, which is the receiver that persist has saved: before
\* persist and load there is no receiver, and so neither a poll request nor
\* a PjUri.
C18_PersistBeforeFlow ==
    /\ receiver # <<>> =>
          /\ store # <<>>
          /\ store[1].key = key(receiver[1])
          /\ receiver[1].context.s = new_rcv.context.s
    /\ out.op \in {"extract_req", "pj_uri"} => (store # <<>> /\ receiver # <<>>)
    /\ (store = <<>> \/ receiver = <<>>) =>
          /\ ~ ENABLED pj_uri
          /\ ~ ENABLED (\E ohttp_relay \in RelayInputs :
                            WithContext_extract_req(ohttp_relay))

\* the loaded receiver has built a poll request
C18_Witness ==
    /\ out.op = "extract_req"
    /\ out.res = "Ok"
    /\ store # <<>>
    /\ receiver # <<>>

----------------------------------------------------------------------------
(* C19 *)

\* C19: the PjUri that pj_uri returns has the address of the context, the
\* endpoint subdir(directory, id), which is not the directory, with the
\* receiver key, the OHTTP keys and the expiry of the context, and output
\* substitution Enabled; and pj_uri changes nothing in the session.
C19_PjUri ==
    [][out'.op = "pj_uri" =>
        LET c == receiver[1].context
            uri == out'.uri
        IN  /\ uri.address = c.address
            /\ uri.endpoint.url = subdir(c.directory, ShortId(c.s.pk))
            /\ uri.endpoint.url # c.directory
            /\ LastSegment(uri.endpoint.url) = ShortId(c.s.pk)
            /\ uri.endpoint.receiver_pubkey = c.s.pk
            /\ uri.endpoint.ohttp = c.ohttp_keys
            /\ uri.endpoint.exp = c.expiry
            /\ uri.output_substitution = "Enabled"
            /\ UNCHANGED <<now, new_rcv, store, receiver, ohttp_ctx, props, caller>>]_vars

\* pj_uri has been called on a session whose directory is the bare host
C19_Witness ==
    /\ out.op = "pj_uri"
    /\ receiver[1].context.directory = [host |-> "dir", path |-> <<"">>]
    /\ out.uri.endpoint.url = [host |-> "dir", path |-> <<"id_s">>]

----------------------------------------------------------------------------
(* C20 *)

\* C20: the context NewReceiver::new builds expires expire_after after the
\* time of creation, and 86400 seconds after it when expire_after is None;
\* it holds no sender key and no subdirectory.
C20_NewReceiverExpiry ==
    out.op = "new" =>
        /\ arg.expire_after # <<>> =>
                new_rcv.context.expiry = now + arg.expire_after[1]
        /\ arg.expire_after = <<>> => new_rcv.context.expiry = now + 86400
        /\ new_rcv.context.e = NoKey
        /\ new_rcv.context.subdirectory = "None"

\* a session created at time 1 with the default lifetime
C20_Witness ==
    /\ out.op = "new"
    /\ now = 1
    /\ arg.expire_after = <<>>
    /\ new_rcv.context.expiry = 86401

----------------------------------------------------------------------------
(* C21 *)

\* C21: a guard that returns Ok leaves a successor whose context has the
\* address, directory, expiry, s and e of the value it was called on; and
\* every state of the session, the receiver and every proposal value, has
\* the session id of the NewReceiver.
C21_ContextCarried ==
    [][/\ (out'.op \in GuardOps /\ out'.res = "Ok") =>
            \E u \in Live, v \in BagToSet(props') :
                /\ CopiesIn(u, props') < CopiesIn(u, props)
                /\ CopiesIn(v, props') > CopiesIn(v, props)
                /\ Rank(v.stage) = Rank(u.stage) + 1
                /\ v.context.address = u.context.address
                /\ v.context.directory = u.context.directory
                /\ v.context.expiry = u.context.expiry
                /\ v.context.s = u.context.s
                /\ v.context.e = u.context.e
       /\ \A p \in BagToSet(props') : id(p.context) = id(new_rcv.context)
       /\ \A i \in DOMAIN receiver' : id(receiver'[i].context) = id(new_rcv.context)]_vars

\* a proposal that came with a sender key has passed every guard
C21_Witness ==
    /\ out.op = "finalize_proposal"
    /\ out.res = "Ok"
    /\ \E p \in Live :
          /\ p.stage = "PayjoinProposal"
          /\ p.context.e = "e1"
          /\ id(p.context) = "id_s"

----------------------------------------------------------------------------
(* C22 *)

\* C22: when the directory holds no payload, process_res returns Ok(None),
\* no proposal value comes to exist and the receiver is as it was, its
\* sender key included; the receiver can then poll again, and the poll
\* builds a request as long as the session has not expired.
C22_KeepPolling ==
    /\ [][(out'.op = "process_res" /\ out'.res = "OkNone") =>
            /\ receiver' = receiver
            /\ props' = props]_vars
    /\ []((out.op = "process_res" /\ out.res = "OkNone") =>
            /\ receiver # <<>>
            /\ ENABLED WithContext_extract_req("relay")
            /\ ~is_expired(receiver[1].context, now) =>
                    ENABLED (WithContext_extract_req("relay") /\ out'.res = "Ok"))

\* no payload has come to a receiver that holds the sender key of an
\* earlier payload and has polled before
C22_Witness ==
    /\ out.op = "process_res"
    /\ out.res = "OkNone"
    /\ receiver[1].context.e = "e1"
    /\ receiver[1].context.ohttp_keys = "used"
    /\ ~is_expired(receiver[1].context, now)

----------------------------------------------------------------------------
(* C23 *)

\* what process_res returns when the parser is given base64 and query
Parsed(base64, query) ==
    LET parsed == parse_payload(base64, query, SUPPORTED_VERSIONS)
    IN  IF parsed.ok THEN "Ok" ELSE parsed.err

\* C23 as stated: a plaintext payload without a newline is passed to the
\* parser whole as the base64 PSBT, with an empty query; so process_res
\* returns what the parser answers to the whole payload.
C23_WholeBodyAsBase64 ==
    (/\ out.op = "process_res"
     /\ arg.response.status = "ok"
     /\ ~arg.response.body.hpke
     /\ IndexOf(arg.response.body.text, "\n", 1) = 0)
        => out.res = Parsed(arg.response.body.text, <<>>)

----------------------------------------------------------------------------
(* C24 *)

\* the segments of a path without the empty ones a slash leaves
Segments(path) == SelectSeq(path, LAMBDA seg : seg # "")

\* `target` is `directory` with the one segment `sid` appended: same host,
\* the segments of the directory's path, then sid
OneSegmentAppended(directory, target, sid) ==
    /\ target.host = directory.host
    /\ Segments(target.path) = Append(Segments(directory.path), sid)

\* C24 as stated: whatever the shape of the directory's path, the poll GET
\* and the error POST target the directory with id(s.pub) appended, the
\* proposal PUT targets the URL the poll GET targets, and the proposal
\* POST targets the directory with id(e) appended.
C24_TargetsUnderDirectory ==
    out.res = "Ok" =>
        /\ out.op = "extract_req" =>
                OneSegmentAppended(receiver[1].context.directory, out.req.target,
                                   ShortId(receiver[1].context.s.pk))
        /\ out.op = "extract_err_req" =>
                OneSegmentAppended(out.self.context.directory, out.req.target,
                                   ShortId(out.self.context.s.pk))
        /\ (out.op = "proposal_extract_req" /\ out.req.method = "PUT") =>
                /\ OneSegmentAppended(out.self.context.directory, out.req.target,
                                      ShortId(out.self.context.s.pk))
                /\ out.req.target = fallback_req_body(out.self.context).envelope.target
        /\ (out.op = "proposal_extract_req" /\ out.req.method = "POST") =>
                OneSegmentAppended(out.self.context.directory, out.req.target,
                                   ShortId(out.self.context.e))

----------------------------------------------------------------------------
(* C25 *)

\* the operations that build a request for the relay
BuilderOps == {"extract_req", "extract_err_req", "proposal_extract_req"}

\* the context of the state the last request builder was called on
BuilderContext ==
    IF out.op = "extract_req" THEN receiver[1].context ELSE out.self.context

\* C25: the outer URL of every request built for the relay is the relay
\* URL followed by the scheme and authority of the directory, whatever the
\* session keys, the target resource, the method and the body are: it
\* holds neither a session id nor a segment of the directory's path.
C25_OuterUrl ==
    (out.op \in BuilderOps /\ out.res = "Ok") =>
        LET c == BuilderContext
            url == out.req.url
        IN  /\ url.host = arg.ohttp_relay
            /\ url.path = <<c.directory.host, "">>
            /\ \A i \in DOMAIN url.path :
                  /\ url.path[i] \notin {ShortId(c.s.pk), ShortId(c.e)}
                  /\ \A j \in DOMAIN c.directory.path :
                        c.directory.path[j] # "" => url.path[i] # c.directory.path[j]

\* a sealed proposal POST of a session under a directory with a path, sent
\* through the second relay
C25_Witness ==
    /\ out.op = "proposal_extract_req"
    /\ out.res = "Ok"
    /\ out.req.method = "POST"
    /\ out.self.context.e = "e2"
    /\ out.self.context.directory = [host |-> "dir2", path |-> <<"a", "">>]
    /\ out.req.url = [host |-> "relay2", path |-> <<"dir2", "">>]

----------------------------------------------------------------------------
(* C26 *)

\* C26 as stated: the UncheckedProposal that process_res returns for a
\* plaintext body has output substitution Disabled, whatever version and
\* substitution its query declares; only one returned for a body that was
\* opened with HPKE can have it Enabled.
C26_PlaintextSubstitutionDisabled ==
    [][(out'.op = "process_res" /\ out'.res = "Ok") =>
        \A v \in BagToSet(props') :
            CopiesIn(v, props') > CopiesIn(v, props) =>
                /\ ~arg'.response.body.hpke =>
                        v.v1.params.output_substitution = "Disabled"
                /\ v.v1.params.output_substitution = "Enabled" =>
                        arg'.response.body.hpke]_vars

----------------------------------------------------------------------------
(* C27 *)

\* C27 as stated: the request that returns a PayjoinProposal has the mode
\* of the payload the proposal came from: a PUT of the unsealed base64
\* PSBT at id(s.pub) for a plaintext payload, a POST sealed to the sender
\* key of that payload at id(e) for a sealed one, whatever sender key
\* earlier payloads of the session have recorded.
C27_ReplyModeOfPayload ==
    (out.op = "proposal_extract_req" /\ out.res = "Ok") =>
        IF arg.payload.hpke
        THEN /\ out.req.method = "POST"
             /\ out.req.body.seal = arg.payload.e
             /\ LastSegment(out.req.target) = ShortId(arg.payload.e)
        ELSE /\ out.req.method = "PUT"
             /\ out.req.body.seal = NoKey
             /\ out.req.body.fmt = "base64"
             /\ LastSegment(out.req.target) = ShortId(out.self.context.s.pk)

----------------------------------------------------------------------------
(* C28 *)

\* C28 as stated: when process_res returns an error the receiver is as it
\* was; in particular no sender key is recorded from a payload that is
\* rejected.
C28_FailedResponseChangesNothing ==
    [][(out'.op = "process_res" /\ out'.res \notin {"Ok", "OkNone"}) =>
            /\ receiver' = receiver
            /\ props' = props]_vars

====
